---- MODULE Spec2Model ----
(***************************************************************************)
(* Offline write-queue and reconciliation engine of the Sales Monitor      *)
(* client (App.tsx).  The persisted queues live in localStorage, the       *)
(* remote store is the pair of Firestore collections `stores` and          *)
(* `transactions`.  JavaScript runs one event loop: the code between two   *)
(* awaits is one atomic step, and an awaited remote call is one step in    *)
(* which the call lands (or fails) and the continuation runs up to the     *)
(* next await.                                                             *)
(***************************************************************************)
EXTENDS Integers, Sequences, FiniteSets, TLC

\* ---------------------------------------------------------------- bounds
\* handlers the user starts in a run; a run that never calls the remote store
\* from a handler (queue handlers only) may use MaxQueueOps of them
MaxUserOps == 3
MaxQueueOps == 4
MaxReloads == 2
MaxFails == 1

\* ------------------------------------------------------------ input sets
\* what the user can type into the forms, values the validation rejects included
Months == {"March"}
Amounts == {0, 1000, 1500}
EditAmounts == {-1, 0, 1500}
Clearances == {"NOT_CLEARED"}
EditClearances == {"NOT_CLEARED", "CLEARED"}
Names == {"Kiosk A"}
Senders == {"", "ann"}
SimCounts == {-1, 1}

VARIABLES
  db,                 \* App state `db` (TRUE once getFirestore has run)
  isAuthReady,        \* App state `isAuthReady`
  pending_stores,     \* localStorage 'pending_stores'
  pending_payments,   \* localStorage 'pending_payments'
  edit_overrides,     \* localStorage 'edit_overrides'
  stores,             \* App state `stores` (last stores snapshot)
  transactions,       \* App state `transactions` (last transactions snapshot)
  optimisticTxEdits,  \* App state `optimisticTxEdits`
  remoteStores,       \* Firestore collection stores: id -> document
  remoteTx,           \* Firestore collection transactions: id -> document
  nextId,             \* source of fresh ids (Date.now(), doc(collection).id)
  storeSync,          \* the async function of the pending-stores sync effect
  paySync,            \* the async function of the pending-payments sync effect
  logPay,             \* AddPaymentsView.handleLogPayment in flight
  delTx,              \* StoreAccordion.deleteTransaction in flight
  editTx,             \* StoreAccordion.saveEdit in flight
  localTx,            \* StoreAccordion state `localTx`, the accordions' lists in one
  savedEdits,         \* StoreAccordion ref `savedEditsRef`, the accordions' maps in one
  editingId,          \* StoreAccordion state `editingId` (one edit form at a time)
  delAll,             \* SettingsView.handleDeleteAllStores in flight
  parsedRows,         \* SettingsView state `parsedRows`
  importJob,          \* SettingsView.performImport in flight
  step,               \* history: the handler step taken last
  hist                \* history: counters and flags used by the properties

vars == <<db, isAuthReady, pending_stores, pending_payments, edit_overrides,
          stores, transactions, optimisticTxEdits, remoteStores, remoteTx,
          nextId, storeSync, paySync, logPay, delTx, editTx, localTx, savedEdits,
          editingId, delAll, parsedRows, importJob, step, hist>>

localVars == <<pending_stores, pending_payments, edit_overrides>>
remoteVars == <<remoteStores, remoteTx>>
appVars == <<db, isAuthReady, stores, transactions, optimisticTxEdits>>
procVars == <<storeSync, paySync, logPay, delTx, editTx>>
settingsVars == <<delAll, parsedRows, importJob>>

\* ------------------------------------------------------------ identifiers
\* `local-${Date.now()}` and `local-pay-${Date.now()}` are the locally minted
\* ids; doc(collection).id is a server-side id.
LocalStoreId(n) == <<"local-", n>>
LocalPayId(n) == <<"local-pay-", n>>
StoreDocId(n) == <<"store", n>>
TxDocId(n) == <<"tx", n>>

\* id.startsWith('local-')
StartsWithLocal(id) == id[1] \in {"local-", "local-pay-"}

\* ------------------------------------------------------ function helpers
EmptyMap == [x \in {} |-> 0]

Put(f, k, v) == [x \in (DOMAIN f) \cup {k} |-> IF x = k THEN v ELSE f[x]]

Remove(f, k) == [x \in (DOMAIN f) \ {k} |-> f[x]]

MapSeq(s, F(_)) == [k \in 1..Len(s) |-> F(s[k])]

Range(s) == {s[k] : k \in 1..Len(s)}

\* Array.prototype.findIndex, 0 for "not found" (JavaScript's -1)
FindIndex(s, P(_)) ==
  IF \E k \in 1..Len(s) : P(s[k])
    THEN CHOOSE k \in 1..Len(s) : P(s[k]) /\ \A j \in 1..(k - 1) : ~P(s[j])
    ELSE 0

\* sum of paymentAmount over the documents ids of rtx
RECURSIVE SumAmount(_, _)
SumAmount(rtx, ids) ==
  IF ids = {} THEN 0
  ELSE LET x == CHOOSE y \in ids : TRUE
       IN rtx[x].paymentAmount + SumAmount(rtx, ids \ {x})

\* ------------------------------------------------------------ remote store
\* (the query that never finds a document)
QueryTxEmpty(rtx, sid, month) == {}

\* query(transactions, where storeId == sid, where transactionMonth == month)
QueryTx(rtx, sid, month) ==
  {id \in DOMAIN rtx : rtx[id].storeId = sid /\ rtx[id].transactionMonth = month}

\* (the aggregate overwritten with the amount instead of incremented)
IncrementStoreAbsolute(rs, sid, dRev, dEnt) ==
  [rs EXCEPT ![sid].totalRevenue = dRev, ![sid].entries = @ + dEnt]

\* updateDoc(storeRef, { totalRevenue: increment(dRev), entries: increment(dEnt) })
IncrementStore(rs, sid, dRev, dEnt) ==
  [rs EXCEPT ![sid].totalRevenue = @ + dRev, ![sid].entries = @ + dEnt]

\* the payload of the two "update existing" branches: senderName, simCardsSold,
\* paymentAmount (remark is not modelled) and clearance when it is set
UpdateTxFields(rtx, id, p) ==
  [rtx EXCEPT ![id].senderName = p.senderName,
              ![id].simCardsSold = p.simCardsSold,
              ![id].paymentAmount = p.paymentAmount,
              ![id].clearance = p.clearance]

\* a transactions document: the fields of a payment without its id
TxDocOf(p, sid) ==
  [storeId |-> sid, transactionMonth |-> p.transactionMonth,
   senderName |-> p.senderName, simCardsSold |-> p.simCardsSold,
   paymentAmount |-> p.paymentAmount, clearance |-> p.clearance]

\* the override written by saveEdit and by the optimisticTxEdit listener
OverrideOf(p) ==
  [senderName |-> p.senderName, simCardsSold |-> p.simCardsSold,
   paymentAmount |-> p.paymentAmount, clearance |-> p.clearance]

\* --------------------------------------------------------- process records
IdleStoreSync == [pc |-> "idle", pendingList |-> <<>>, i |-> 0, idMapping |-> EmptyMap]
IdlePaySync == [pc |-> "idle", list |-> <<>>, i |-> 0, remaining |-> <<>>,
                existing |-> <<>>, prev |-> 0, before |-> <<>>, committed |-> {}]
IdleLogPay == [pc |-> "idle", form |-> <<>>, list |-> <<>>, effectiveStoreId |-> <<>>,
               existing |-> <<>>, prev |-> 0]
IdleDelTx == [pc |-> "idle", t |-> <<>>]
IdleEditTx == [pc |-> "idle", tx |-> <<>>, fields |-> <<>>]
IdleDelAll == [pc |-> "idle", allStores |-> <<>>, allTx |-> <<>>, i |-> 0, batches |-> <<>>]
IdleImport == [pc |-> "idle", unique |-> <<>>, first |-> 0]

\* `owed` keeps the ids of the queued operations that are neither committed
\* remotely nor deleted by the user, `mapped` the local store ids whose
\* references the store drain has rewritten in the queued payments, `made`
\* the pairs of a local store id and the id of a document set from it
IdleHist == [userOps |-> 0, remoteOps |-> 0, reloads |-> 0, fails |-> 0, ops |-> {},
             owed |-> {}, mapped |-> {}, made |-> {}]

\* ------------------------------------------------- App: merged views
\* getPendingStores() as far as the model keeps store fields
PendingStoreView(s) ==
  [id |-> s.id, name |-> s.name, totalRevenue |-> s.totalRevenue, entries |-> s.entries]

\* displayStores: [...stores, ...getPendingStores()] de-duplicated by id
RECURSIVE DedupById(_, _, _)
DedupById(merged, k, out) ==
  IF k > Len(merged) THEN out
  ELSE IF \E j \in 1..Len(out) : out[j].id = merged[k].id
    THEN DedupById(merged, k + 1, out)
    ELSE DedupById(merged, k + 1, Append(out, merged[k]))

displayStores == DedupById(stores \o MapSeq(pending_stores, PendingStoreView), 1, <<>>)

\* a.transactionMonth.localeCompare(b.transactionMonth): alphabetical order
MonthOrder == <<"April", "August", "December", "February", "January", "July",
                "June", "March", "May", "November", "October", "September">>

MonthRank(m) == CHOOSE k \in 1..Len(MonthOrder) : MonthOrder[k] = m

\* Array.prototype.sort with that comparator (stable)
RECURSIVE SortByMonth(_)
SortByMonth(s) ==
  IF Len(s) <= 1 THEN s
  ELSE LET x == s[Len(s)]
           front == SortByMonth(SubSeq(s, 1, Len(s) - 1))
           keep == SelectSeq(front, LAMBDA y :
                     MonthRank(y.transactionMonth) <= MonthRank(x.transactionMonth))
           rest == SelectSeq(front, LAMBDA y :
                     MonthRank(y.transactionMonth) > MonthRank(x.transactionMonth))
       IN keep \o <<x>> \o rest

\* { ...tx, ...override }
ApplyOverride(tx, ov) ==
  [tx EXCEPT !.senderName = ov.senderName, !.simCardsSold = ov.simCardsSold,
             !.paymentAmount = ov.paymentAmount, !.clearance = ov.clearance]

\* a merge that pushes every pending payment, without the id and month lookups
MergePendingPush(m, p) == Append(m, p)

\* the loop over the pending payments of transactionsByStore; the per-store
\* lists are kept as one list, findIndex looking only at records of p's store
MergePending(m, p) ==
  LET idIndex == FindIndex(m, LAMBDA r : r.storeId = p.storeId /\ r.id = p.id)
      monthIndex == FindIndex(m, LAMBDA r : r.storeId = p.storeId
                                            /\ r.transactionMonth = p.transactionMonth)
  IN IF idIndex > 0 THEN [m EXCEPT ![idIndex] = p]
     ELSE IF monthIndex > 0 THEN [m EXCEPT ![monthIndex] = ApplyOverride(@, OverrideOf(p))]
     ELSE Append(m, p)

RECURSIVE MergeAllPending(_, _, _)
MergeAllPending(m, pendingList, k) ==
  IF k > Len(pendingList) THEN m
  ELSE MergeAllPending(MergePending(m, pendingList[k]), pendingList, k + 1)

\* persisted overrides: the first record with the id takes the override
RECURSIVE ApplyPersisted(_, _, _)
ApplyPersisted(m, overrides, ids) ==
  IF ids = {} THEN m
  ELSE LET id == CHOOSE x \in ids : TRUE
           idx == FindIndex(m, LAMBDA r : r.id = id)
           m2 == IF idx > 0 THEN [m EXCEPT ![idx] = ApplyOverride(@, overrides[id])] ELSE m
       IN ApplyPersisted(m2, overrides, ids \ {id})

\* (the merge with the layers reversed: the pending payments on top of the overrides)
MergedViewPendingOnTop(snapshot, pendingList, overrides, optimistic) ==
  LET persisted == ApplyPersisted(snapshot, overrides, DOMAIN overrides)
      edited == MapSeq(persisted, LAMBDA tx : IF tx.id \in DOMAIN optimistic
                                                THEN ApplyOverride(tx, optimistic[tx.id]) ELSE tx)
  IN SortByMonth(MergeAllPending(edited, pendingList, 1))

\* transactionsByStore, all stores in one list
MergedView(snapshot, pendingList, overrides, optimistic) ==
  LET merged == MergeAllPending(snapshot, pendingList, 1)
      persisted == ApplyPersisted(merged, overrides, DOMAIN overrides)
      sorted == SortByMonth(persisted)
  IN MapSeq(sorted, LAMBDA tx : IF tx.id \in DOMAIN optimistic
                                  THEN ApplyOverride(tx, optimistic[tx.id]) ELSE tx)

transactionsByStore == MergedView(transactions, pending_payments, edit_overrides, optimisticTxEdits)

\* ---------------------------------------------- StoreAccordion: state
\* editingId === null
NoEdit == [id |-> <<>>, storeId |-> <<>>]

\* the stores of a list, each of which is shown by one accordion (key = store.id)
ShownIds(list) == {list[k].id : k \in 1..Len(list)}

\* transactionsByStore[store.id] || []
TxOfStore(list, sid) == SelectSeq(list, LAMBDA t : t.storeId = sid)

\* prev.filter(x => x.id !== t.id)
RemoveTx(list, id) == SelectSeq(list, LAMBDA x : x.id # id)

\* prev.map(p => p.id === tx.id ? { ...p, senderName, simCardsSold, paymentAmount, clearance } : p)
PatchTx(list, id, fields) ==
  MapSeq(list, LAMBDA p : IF p.id = id THEN ApplyOverride(p, fields) ELSE p)

\* localTx.reduce((sum, t) => sum + t.paymentAmount, 0)
RECURSIVE computedRevenue(_)
computedRevenue(list) ==
  IF list = <<>> THEN 0 ELSE Head(list).paymentAmount + computedRevenue(Tail(list))

\* savedEditsRef.current of the accordion of store sid
SavedOf(saved, sid) ==
  [id \in {x \in DOMAIN saved : saved[x].storeId = sid} |-> saved[id]]

\* the effect on [transactions, editingId] as far as it sets localTx: with an
\* edit form open only the edited record is refreshed from the prop
AccordionEffect(prop, prev, saved, editing) ==
  IF editing # NoEdit
    THEN LET k == FindIndex(prop, LAMBDA t : t.id = editing.id)
             merged == IF editing.id \in DOMAIN saved
                         THEN ApplyOverride(prop[k], saved[editing.id]) ELSE prop[k]
         IN IF k > 0
              THEN MapSeq(prev, LAMBDA p : IF p.id = editing.id THEN merged ELSE p)
              ELSE prev
    ELSE MapSeq(prop, LAMBDA t : IF t.id \in DOMAIN saved
                                   THEN ApplyOverride(t, saved[t.id]) ELSE t)

\* the comparison of that effect between a saved edit and a record of the prop
SavedMatches(ov, remote) ==
  /\ remote.senderName = ov.senderName
  /\ remote.simCardsSold = ov.simCardsSold
  /\ remote.paymentAmount = ov.paymentAmount
  /\ ov.clearance = remote.clearance

\* the edit form of the accordion of store sid
EditingOf(editing, sid) == IF editing.storeId = sid THEN editing ELSE NoEdit

\* the effect of the accordion of sid runs: its prop is a new array (the memo
\* of transactionsByStore was recomputed), editingId changed, or it mounts
EffectRuns(sid, before, editing, memo) ==
  \/ memo
  \/ sid \notin before
  \/ EditingOf(editing, sid) # EditingOf(editingId, sid)

\* localTx of all accordions after the render: `shown` are the stores shown
\* now, `before` the ids shown so far, `prev` localTx as the handler left it
RECURSIVE AccordionLists(_, _, _, _, _, _, _, _)
AccordionLists(shown, k, before, prop, prev, saved, editing, memo) ==
  IF k > Len(shown) THEN <<>>
  ELSE LET sid == shown[k].id
           propS == TxOfStore(prop, sid)
           prevS == IF sid \in before THEN TxOfStore(prev, sid) ELSE propS
           list == IF EffectRuns(sid, before, editing, memo)
                     THEN AccordionEffect(propS, prevS, SavedOf(saved, sid),
                                          EditingOf(editing, sid))
                     ELSE prevS
       IN list \o AccordionLists(shown, k + 1, before, prop, prev, saved, editing, memo)

\* savedEditsRef after the render: the entries of unmounted accordions are
\* gone, the effect deletes the entries that the prop matches
SavedAfter(shownIds, before, prop, saved, editing, memo) ==
  LET dropped(id) ==
        \/ saved[id].storeId \notin shownIds
        \/ /\ EffectRuns(saved[id].storeId, before, editing, memo)
           /\ EditingOf(editing, saved[id].storeId) = NoEdit
           /\ \E k \in 1..Len(prop) : prop[k].id = id /\ SavedMatches(saved[id], prop[k])
  IN [id \in {x \in DOMAIN saved : ~dropped(x)} |-> saved[id]]

\* the render that follows a handler step: the handler leaves `prev`, `saved`
\* and `editing` in the accordions; `recomputed` when it dispatched an event
\* that makes App recompute transactionsByStore
Render(prev, saved, editing, recomputed) ==
  \E snapshot \in {transactions'} : \E queue \in {pending_payments'} :
  \E overrides \in {edit_overrides'} : \E optimistic \in {optimisticTxEdits'} :
  \E shown \in {displayStores'} :
  \E prop \in {MergedView(snapshot, queue, overrides, optimistic)} :
    LET before == ShownIds(displayStores)
        ed == IF editing.storeId \in ShownIds(shown) THEN editing ELSE NoEdit
        memo == recomputed \/ prop # transactionsByStore
    IN /\ editingId' = ed
       /\ localTx' = AccordionLists(shown, 1, before, prop, prev, saved, ed, memo)
       /\ savedEdits' = SavedAfter(ShownIds(shown), before, prop, saved, ed, memo)

\* a step that leaves the accordions' state to the render
Rendered == Render(localTx, savedEdits, editingId, FALSE)

\* saveEdit's last part: savedEditsRef.current[tx.id] = ..., setLocalTx(map),
\* the event for App and cancelEdit()
SavedRender(tx, fields) ==
  Render(PatchTx(localTx, tx.id, fields),
         Put(savedEdits, tx.id, fields @@ [storeId |-> tx.storeId]),
         NoEdit, TRUE)

Init ==
  /\ db = FALSE
  /\ isAuthReady = FALSE
  /\ pending_stores = <<>>
  /\ pending_payments = <<>>
  /\ edit_overrides = EmptyMap
  /\ stores = <<>>
  /\ transactions = <<>>
  /\ optimisticTxEdits = EmptyMap
  /\ remoteStores = EmptyMap
  /\ remoteTx = EmptyMap
  /\ nextId = 1
  /\ storeSync = IdleStoreSync
  /\ paySync = IdlePaySync
  /\ logPay = IdleLogPay
  /\ delTx = IdleDelTx
  /\ editTx = IdleEditTx
  /\ localTx = <<>>
  /\ savedEdits = EmptyMap
  /\ editingId = NoEdit
  /\ delAll = IdleDelAll
  /\ parsedRows = <<>>
  /\ importJob = IdleImport
  /\ step = [name |-> "init", arg |-> <<>>, events |-> {}]
  /\ hist = IdleHist

\* ------------------------------------------------------------- history
\* (the step that publishes nothing)
DidDispatchNothing(name, arg, events) == step' = [name |-> name, arg |-> arg, events |-> {}]

\* `events` are the events the step has published with window.dispatchEvent
DidDispatch(name, arg, events) == step' = [name |-> name, arg |-> arg, events |-> events]

DidWith(name, arg) == DidDispatch(name, arg, {})

Did(name) == DidWith(name, <<>>)

\* a handler the user starts that only works on the queues: it enqueues the
\* operations `add` and takes the operations `drop` out of the queue; `ops`
\* keeps the names of the handlers used so far
UserOpOwing(name, add, drop) ==
  /\ \/ hist.userOps < MaxUserOps
     \/ hist.remoteOps = 0 /\ hist.userOps < MaxQueueOps
  /\ hist' = [hist EXCEPT !.userOps = @ + 1, !.ops = @ \cup {name},
                          !.owed = (@ \cup add) \ drop]

\* a handler the user starts that calls the remote store
UserOp(name) ==
  /\ hist.userOps < MaxUserOps
  /\ hist' = [hist EXCEPT !.userOps = @ + 1, !.remoteOps = @ + 1, !.ops = @ \cup {name}]

\* the operations `ids` have reached the remote store
Settle(ids) == hist' = [hist EXCEPT !.owed = @ \ ids]

\* a remote call that fails for connectivity or permission
RemoteFailure ==
  /\ hist.fails < MaxFails
  /\ hist' = [hist EXCEPT !.fails = @ + 1]

\* ------------------------------------------------- App: auth effect
\* setDb(getFirestore(app)) in the mount effect
InitFirebase ==
  /\ ~db
  /\ db' = TRUE
  /\ UNCHANGED settingsVars
  /\ Did("InitFirebase")
  /\ UNCHANGED <<isAuthReady, stores, transactions, optimisticTxEdits,
                 localVars, remoteVars, nextId, procVars, hist>>
  /\ Rendered

\* The synchronous part of the pending-stores sync effect: it reads the queue
\* and starts the async function, which runs up to its first await.
StartStoreSync(pendingList) ==
  IF Len(pendingList) = 0
    THEN IdleStoreSync
    ELSE [pc |-> "setDoc", pendingList |-> pendingList, i |-> 1, idMapping |-> EmptyMap]

\* The loop of the pending-payments async function from item i up to its next
\* await: an item whose store is still local is pushed to `remaining` without
\* any await; the loop stops at the first item that needs getDocs, or ends.
RECURSIVE PayLoop(_, _, _)
\* (the loop without the check for a store that is still local)
PayLoopNoLocalCheck(list, i, remaining) ==
  IF i > Len(list)
    THEN [pc |-> "end", list |-> list, i |-> i, remaining |-> remaining,
          existing |-> <<>>, prev |-> 0, before |-> <<>>, committed |-> {}]
    ELSE [pc |-> "getDocs", list |-> list, i |-> i, remaining |-> remaining,
          existing |-> <<>>, prev |-> 0, before |-> <<>>, committed |-> {}]

PayLoop(list, i, remaining) ==
  IF i > Len(list)
    THEN [pc |-> "end", list |-> list, i |-> i, remaining |-> remaining,
          existing |-> <<>>, prev |-> 0, before |-> <<>>, committed |-> {}]
    ELSE IF StartsWithLocal(list[i].storeId)
      THEN PayLoop(list, i + 1, Append(remaining, list[i]))
      ELSE [pc |-> "getDocs", list |-> list, i |-> i, remaining |-> remaining,
            existing |-> <<>>, prev |-> 0, before |-> <<>>, committed |-> {}]

\* what the loop leaves in paySync / localStorage once it has advanced:
\* at the end `remaining` replaces the persisted queue (removeItem when empty);
\* `committed` is history, the ids of the batch's items that went through
PayContinue(next, current, committed) ==
  /\ paySync' = IF next.pc = "end" THEN IdlePaySync
                 ELSE [next EXCEPT !.committed = committed]
  /\ pending_payments' = IF next.pc = "end" THEN next.remaining ELSE current

\* window.dispatchEvent(new Event('pendingPaymentsUpdated')) after the loop
PayEvents(next) == IF next.pc = "end" THEN {"pendingPaymentsUpdated"} ELSE {}

\* onAuthStateChanged callback: setIsAuthReady(true); the effects that depend
\* on [isAuthReady, db, appId] then run once, stores first, payments second.
AuthReady ==
  /\ db /\ ~isAuthReady
  /\ isAuthReady' = TRUE
  /\ storeSync' = StartStoreSync(pending_stores)
  /\ IF Len(pending_payments) = 0
       THEN UNCHANGED <<paySync, pending_payments>>
       ELSE PayContinue(PayLoop(pending_payments, 1, <<>>), pending_payments, {})
  /\ UNCHANGED settingsVars
  /\ DidDispatch("AuthReady", <<>>,
                 IF Len(pending_payments) = 0 THEN {}
                 ELSE PayEvents(PayLoop(pending_payments, 1, <<>>)))
  /\ UNCHANGED <<db, stores, transactions, optimisticTxEdits, pending_stores,
                 edit_overrides, remoteVars, nextId, logPay, delTx, editTx, hist>>
  /\ Rendered

\* ------------------------------------- App: pending stores sync effect
\* const { offline, id, ...rest } = s; setDoc(newRef, { ...rest, id: newRef.id })
StoreDocOf(s) == [name |-> s.name, totalRevenue |-> s.totalRevenue, entries |-> s.entries]

\* payList.map(p => idMapping[p.storeId] ? { ...p, storeId: idMapping[p.storeId] } : p)
RemapPayments(payList, idMapping) ==
  MapSeq(payList, LAMBDA p : IF p.storeId \in DOMAIN idMapping
                               THEN [p EXCEPT !.storeId = idMapping[p.storeId]]
                               ELSE p)

\* the events after the loop: pendingStoresUpdated, and pendingPaymentsUpdated
\* when the key pending_payments exists (an empty queue is either no key or
\* the list [])
RemapEvents(payList) ==
  IF payList = <<>>
    THEN {{"pendingStoresUpdated"}, {"pendingStoresUpdated", "pendingPaymentsUpdated"}}
    ELSE {{"pendingStoresUpdated", "pendingPaymentsUpdated"}}

\* await setDoc(newRef, ...) succeeds for item i; after the last item the queue
\* is removed and the queued payments are remapped
StoreSyncSetDoc ==
  /\ storeSync.pc = "setDoc"
  /\ LET s == storeSync.pendingList[storeSync.i]
         newRef == StoreDocId(nextId)
         idMapping == Put(storeSync.idMapping, s.id, newRef)
     IN /\ remoteStores' = Put(remoteStores, newRef, StoreDocOf(s))
        /\ nextId' = nextId + 1
        /\ IF storeSync.i < Len(storeSync.pendingList)
             THEN /\ storeSync' = [storeSync EXCEPT !.i = @ + 1, !.idMapping = idMapping]
                  /\ UNCHANGED <<pending_stores, pending_payments>>
             ELSE /\ storeSync' = IdleStoreSync
                  /\ pending_stores' = <<>>
                  /\ pending_payments' = RemapPayments(pending_payments, idMapping)
        /\ UNCHANGED settingsVars
        /\ \E events \in IF storeSync.i < Len(storeSync.pendingList)
                            THEN {{}} ELSE RemapEvents(pending_payments) :
             DidDispatch("StoreSyncSetDoc",
                         [i |-> storeSync.i, batch |-> storeSync.pendingList,
                          committed |-> DOMAIN idMapping], events)
        /\ hist' = [hist EXCEPT !.owed = @ \ {s.id},
                                !.mapped = IF storeSync.i < Len(storeSync.pendingList)
                                             THEN @ ELSE @ \cup DOMAIN idMapping,
                                !.made = @ \cup {<<s.id, newRef>>}]
  /\ UNCHANGED <<appVars, edit_overrides, remoteTx, paySync, logPay, delTx, editTx>>
  /\ Rendered

\* await setDoc(newRef, ...) rejects: the exception leaves the loop and the
\* async function ends in its .catch; the queue is not written
StoreSyncFail ==
  /\ storeSync.pc = "setDoc"
  /\ RemoteFailure
  /\ storeSync' = IdleStoreSync
  /\ UNCHANGED settingsVars
  /\ DidWith("StoreSyncFail", [i |-> storeSync.i, batch |-> storeSync.pendingList,
                               committed |-> DOMAIN storeSync.idMapping])
  /\ UNCHANGED <<appVars, localVars, remoteVars, nextId, paySync, logPay, delTx, editTx>>
  /\ Rendered

\* ----------------------------------- App: pending payments sync effect
PayItem == paySync.list[paySync.i]

\* history: the remote state the item's query saw
BeforeItem(p, found) ==
  [totalRevenue |-> IF p.storeId \in DOMAIN remoteStores
                      THEN remoteStores[p.storeId].totalRevenue ELSE 0,
   entries |-> IF p.storeId \in DOMAIN remoteStores
                 THEN remoteStores[p.storeId].entries ELSE 0,
   docs |-> Cardinality(found),
   committed |-> \E id \in DOMAIN remoteTx : remoteTx[id] = TxDocOf(p, p.storeId)]

\* history: the item the drain has just finished with
ItemDone(outcome) ==
  [p |-> PayItem, i |-> paySync.i, batch |-> paySync.list, outcome |-> outcome,
   existing |-> paySync.existing, prev |-> paySync.prev, before |-> paySync.before,
   committed |-> IF outcome = "failed" THEN paySync.committed
                 ELSE paySync.committed \cup {PayItem.id}]

\* const snap = await getDocs(q)
PaySyncGetDocs ==
  /\ paySync.pc = "getDocs"
  /\ LET found == QueryTx(remoteTx, PayItem.storeId, PayItem.transactionMonth)
     IN IF found = {}
          THEN paySync' = [paySync EXCEPT !.pc = "setDoc",
                                          !.before = BeforeItem(PayItem, found)]
          ELSE \E existing \in found :
                 paySync' = [paySync EXCEPT !.pc = "updateDoc", !.existing = existing,
                                            !.prev = remoteTx[existing].paymentAmount,
                                            !.before = BeforeItem(PayItem, found)]
  /\ UNCHANGED settingsVars
  /\ Did("PaySyncGetDocs")
  /\ UNCHANGED <<appVars, localVars, remoteVars, nextId, storeSync, logPay, delTx, editTx, hist>>
  /\ Rendered

\* await updateDoc(txRef, payload); without a delta the item is done
PaySyncUpdateDoc ==
  /\ paySync.pc = "updateDoc"
  /\ paySync.existing \in DOMAIN remoteTx
  /\ remoteTx' = UpdateTxFields(remoteTx, paySync.existing, PayItem)
  /\ IF PayItem.paymentAmount - paySync.prev # 0
       THEN /\ paySync' = [paySync EXCEPT !.pc = "incDelta"]
            /\ UNCHANGED pending_payments
            /\ UNCHANGED settingsVars
            /\ DidWith("PaySyncUpdateDoc", [outcome |-> "delta"])
       ELSE /\ PayContinue(PayLoop(paySync.list, paySync.i + 1, paySync.remaining),
                           pending_payments, paySync.committed \cup {PayItem.id})
            /\ UNCHANGED settingsVars
            /\ DidDispatch("PaySyncUpdateDoc", ItemDone("updated"),
                           PayEvents(PayLoop(paySync.list, paySync.i + 1, paySync.remaining)))
  /\ Settle({PayItem.id})
  /\ UNCHANGED <<appVars, pending_stores, edit_overrides, remoteStores, nextId,
                 storeSync, logPay, delTx, editTx>>
  /\ Rendered

\* await updateDoc(storeRef, { totalRevenue: increment(delta) })
PaySyncIncDelta ==
  /\ paySync.pc = "incDelta"
  /\ PayItem.storeId \in DOMAIN remoteStores
  /\ remoteStores' = IncrementStore(remoteStores, PayItem.storeId,
                                    PayItem.paymentAmount - paySync.prev, 0)
  /\ PayContinue(PayLoop(paySync.list, paySync.i + 1, paySync.remaining), pending_payments,
                 paySync.committed \cup {PayItem.id})
  /\ UNCHANGED settingsVars
  /\ DidDispatch("PaySyncIncDelta", ItemDone("updated"),
                 PayEvents(PayLoop(paySync.list, paySync.i + 1, paySync.remaining)))
  /\ UNCHANGED <<appVars, pending_stores, edit_overrides, remoteTx, nextId,
                 storeSync, logPay, delTx, editTx, hist>>
  /\ Rendered

\* await setDoc(newRef, { ...p, id: newRef.id })
PaySyncSetDoc ==
  /\ paySync.pc = "setDoc"
  /\ remoteTx' = Put(remoteTx, TxDocId(nextId), TxDocOf(PayItem, PayItem.storeId))
  /\ nextId' = nextId + 1
  /\ paySync' = [paySync EXCEPT !.pc = "incStore"]
  /\ UNCHANGED settingsVars
  /\ Did("PaySyncSetDoc")
  /\ Settle({PayItem.id})
  /\ UNCHANGED <<appVars, localVars, remoteStores, storeSync, logPay, delTx, editTx>>
  /\ Rendered

\* await updateDoc(storeRef, { totalRevenue: increment(p.paymentAmount), entries: increment(1) })
PaySyncIncStore ==
  /\ paySync.pc = "incStore"
  /\ PayItem.storeId \in DOMAIN remoteStores
  /\ remoteStores' = IncrementStore(remoteStores, PayItem.storeId, PayItem.paymentAmount, 1)
  /\ PayContinue(PayLoop(paySync.list, paySync.i + 1, paySync.remaining), pending_payments,
                 paySync.committed \cup {PayItem.id})
  /\ UNCHANGED settingsVars
  /\ DidDispatch("PaySyncIncStore", ItemDone("created"),
                 PayEvents(PayLoop(paySync.list, paySync.i + 1, paySync.remaining)))
  /\ UNCHANGED <<appVars, pending_stores, edit_overrides, remoteTx, nextId,
                 storeSync, logPay, delTx, editTx, hist>>
  /\ Rendered

\* updateDoc rejects when the document does not exist
PaySyncNotFound ==
  \/ paySync.pc = "updateDoc" /\ paySync.existing \notin DOMAIN remoteTx
  \/ paySync.pc \in {"incDelta", "incStore"} /\ PayItem.storeId \notin DOMAIN remoteStores

\* an awaited call of the item rejects: catch (innerErr) { remaining.push(p) }
\* and the loop goes on with the next item
PaySyncFail ==
  /\ paySync.pc \in {"getDocs", "updateDoc", "incDelta", "setDoc", "incStore"}
  /\ IF PaySyncNotFound THEN UNCHANGED hist ELSE RemoteFailure
  /\ PayContinue(PayLoop(paySync.list, paySync.i + 1, Append(paySync.remaining, PayItem)),
                 pending_payments, paySync.committed)
  /\ UNCHANGED settingsVars
  /\ DidDispatch("PaySyncFail", ItemDone("failed"),
                 PayEvents(PayLoop(paySync.list, paySync.i + 1,
                                   Append(paySync.remaining, PayItem))))
  /\ UNCHANGED <<appVars, pending_stores, edit_overrides, remoteVars, nextId,
                 storeSync, logPay, delTx, editTx>>
  /\ Rendered

\* list.filter(s => s.id !== store.id)
RemoveStore(list, id) == SelectSeq(list, LAMBDA s : s.id # id)

\* --------------------------------------------- AddStoreView.handleAddStore
\* if (!isAuthReady || !db): the store is queued under a local id
AddStoreOffline ==
  /\ ~(isAuthReady /\ db)
  /\ UserOpOwing("AddStoreOffline", {LocalStoreId(nextId)}, {})
  /\ \E name \in Names :
       pending_stores' = Append(pending_stores,
         [id |-> LocalStoreId(nextId), name |-> name, totalRevenue |-> 0, entries |-> 0])
  /\ nextId' = nextId + 1
  /\ UNCHANGED settingsVars
  /\ DidDispatch("AddStoreOffline", <<>>, {"pendingStoresUpdated"})
  /\ UNCHANGED <<appVars, pending_payments, edit_overrides, remoteVars, procVars>>
  /\ Rendered

\* otherwise await setDoc(newStoreRef, ...)
AddStoreOnline ==
  /\ isAuthReady /\ db
  /\ UserOp("AddStoreOnline")
  /\ \E name \in Names :
       remoteStores' = Put(remoteStores, StoreDocId(nextId),
                           [name |-> name, totalRevenue |-> 0, entries |-> 0])
  /\ nextId' = nextId + 1
  /\ UNCHANGED settingsVars
  /\ Did("AddStoreOnline")
  /\ UNCHANGED <<appVars, localVars, remoteTx, procVars>>
  /\ Rendered

\* ----------------------------------- AddPaymentsView.handleLogPayment
\* the forms the user can submit: a store of the selectable list, a month, ...
FormInputs ==
  {[storeId |-> s.id, transactionMonth |-> month, senderName |-> sender,
    simCardsSold |-> sims, paymentAmount |-> amount, clearance |-> clearance] :
     s \in Range(displayStores), month \in Months, sender \in Senders,
     sims \in SimCounts, amount \in Amounts, clearance \in Clearances}

\* !senderName.trim() ... and amount <= 0 || simCards < 0 return early
FormValid(form) ==
  /\ form.senderName # ""
  /\ form.paymentAmount > 0
  /\ form.simCardsSold >= 0

\* the forms that pass the validation (the same in both branches)
Forms == {form \in FormInputs : FormValid(form)}

PaymentOf(form, id) ==
  [id |-> id, storeId |-> form.storeId, transactionMonth |-> form.transactionMonth,
   senderName |-> form.senderName, simCardsSold |-> form.simCardsSold,
   paymentAmount |-> form.paymentAmount, clearance |-> form.clearance]

\* if (!db): the payment is queued under a local id
LogPaymentOffline ==
  /\ ~db
  /\ UserOpOwing("LogPaymentOffline", {LocalPayId(nextId)}, {})
  /\ \E form \in Forms :
       pending_payments' = Append(pending_payments, PaymentOf(form, LocalPayId(nextId)))
  /\ nextId' = nextId + 1
  /\ UNCHANGED settingsVars
  /\ DidDispatch("LogPaymentOffline", <<>>, {"pendingPaymentsUpdated"})
  /\ UNCHANGED <<appVars, pending_stores, edit_overrides, remoteVars, procVars>>
  /\ Rendered

\* db is set: the handler runs up to its first await, the inline store sync
\* for a local store (whose pending list it has read), getDocs otherwise
LogPaymentSubmit ==
  /\ db
  /\ logPay.pc = "idle"
  /\ UserOp("LogPaymentSubmit")
  /\ \E form \in Forms :
       IF StartsWithLocal(form.storeId)
         THEN /\ \E k \in 1..Len(pending_stores) : pending_stores[k].id = form.storeId
              /\ logPay' = [IdleLogPay EXCEPT !.pc = "syncStore", !.form = form,
                                              !.list = pending_stores,
                                              !.effectiveStoreId = form.storeId]
         ELSE logPay' = [IdleLogPay EXCEPT !.pc = "getDocs", !.form = form,
                                           !.effectiveStoreId = form.storeId]
  /\ UNCHANGED settingsVars
  /\ Did("LogPaymentSubmit")
  /\ UNCHANGED <<appVars, localVars, remoteVars, nextId, storeSync, paySync, delTx, editTx>>
  /\ Rendered

\* await setDoc(newStoreRef, { ...rest, id }); the pending list read before the
\* await, without the store, is written back
LogPaySyncStore ==
  /\ logPay.pc = "syncStore"
  /\ LET k == FindIndex(logPay.list, LAMBDA s : s.id = logPay.form.storeId)
         newStoreRef == StoreDocId(nextId)
     IN /\ remoteStores' = Put(remoteStores, newStoreRef, StoreDocOf(logPay.list[k]))
        /\ pending_stores' = RemoveStore(logPay.list, logPay.form.storeId)
        /\ logPay' = [logPay EXCEPT !.pc = "getDocs", !.effectiveStoreId = newStoreRef]
  /\ nextId' = nextId + 1
  /\ UNCHANGED settingsVars
  /\ DidDispatch("LogPaySyncStore", <<>>, {"pendingStoresUpdated"})
  /\ hist' = [hist EXCEPT !.owed = @ \ {logPay.form.storeId},
                          !.made = @ \cup {<<logPay.form.storeId, StoreDocId(nextId)>>}]
  /\ UNCHANGED <<appVars, pending_payments, edit_overrides, remoteTx,
                 storeSync, paySync, delTx, editTx>>
  /\ Rendered

\* const existingSnap = await getDocs(q)
LogPayGetDocs ==
  /\ logPay.pc = "getDocs"
  /\ LET found == QueryTx(remoteTx, logPay.effectiveStoreId, logPay.form.transactionMonth)
     IN IF found = {}
          THEN logPay' = [logPay EXCEPT !.pc = "setDoc"]
          ELSE \E existing \in found :
                 logPay' = [logPay EXCEPT !.pc = "updateDoc", !.existing = existing,
                                          !.prev = remoteTx[existing].paymentAmount]
  /\ UNCHANGED settingsVars
  /\ Did("LogPayGetDocs")
  /\ UNCHANGED <<appVars, localVars, remoteVars, nextId, storeSync, paySync, delTx, editTx, hist>>
  /\ Rendered

\* await updateDoc(txRef, updatePayload)
LogPayUpdateDoc ==
  /\ logPay.pc = "updateDoc"
  /\ logPay.existing \in DOMAIN remoteTx
  /\ remoteTx' = UpdateTxFields(remoteTx, logPay.existing, logPay.form)
  /\ logPay' = IF logPay.form.paymentAmount - logPay.prev # 0
                 THEN [logPay EXCEPT !.pc = "incDelta"] ELSE IdleLogPay
  /\ UNCHANGED settingsVars
  /\ Did("LogPayUpdateDoc")
  /\ UNCHANGED <<appVars, localVars, remoteStores, nextId, storeSync, paySync, delTx, editTx, hist>>
  /\ Rendered

\* await updateDoc(storeRef, { totalRevenue: increment(delta) })
LogPayIncDelta ==
  /\ logPay.pc = "incDelta"
  /\ logPay.effectiveStoreId \in DOMAIN remoteStores
  /\ remoteStores' = IncrementStore(remoteStores, logPay.effectiveStoreId,
                                    logPay.form.paymentAmount - logPay.prev, 0)
  /\ logPay' = IdleLogPay
  /\ UNCHANGED settingsVars
  /\ Did("LogPayIncDelta")
  /\ UNCHANGED <<appVars, localVars, remoteTx, nextId, storeSync, paySync, delTx, editTx, hist>>
  /\ Rendered

\* await setDoc(newTransactionRef, newTransaction)
LogPaySetDoc ==
  /\ logPay.pc = "setDoc"
  /\ remoteTx' = Put(remoteTx, TxDocId(nextId), TxDocOf(logPay.form, logPay.effectiveStoreId))
  /\ nextId' = nextId + 1
  /\ logPay' = [logPay EXCEPT !.pc = "incStore"]
  /\ UNCHANGED settingsVars
  /\ Did("LogPaySetDoc")
  /\ UNCHANGED <<appVars, localVars, remoteStores, storeSync, paySync, delTx, editTx, hist>>
  /\ Rendered

\* await updateDoc(storeRef, { totalRevenue: increment(amount), entries: increment(1) })
LogPayIncStore ==
  /\ logPay.pc = "incStore"
  /\ logPay.effectiveStoreId \in DOMAIN remoteStores
  /\ remoteStores' = IncrementStore(remoteStores, logPay.effectiveStoreId,
                                    logPay.form.paymentAmount, 1)
  /\ logPay' = IdleLogPay
  /\ UNCHANGED settingsVars
  /\ Did("LogPayIncStore")
  /\ UNCHANGED <<appVars, localVars, remoteTx, nextId, storeSync, paySync, delTx, editTx, hist>>
  /\ Rendered

LogPayNotFound ==
  \/ logPay.pc = "updateDoc" /\ logPay.existing \notin DOMAIN remoteTx
  \/ logPay.pc \in {"incDelta", "incStore"} /\ logPay.effectiveStoreId \notin DOMAIN remoteStores

\* an awaited call rejects: the handler ends in its catch
LogPayFail ==
  /\ logPay.pc \in {"syncStore", "getDocs", "updateDoc", "incDelta", "setDoc", "incStore"}
  /\ IF LogPayNotFound THEN UNCHANGED hist ELSE RemoteFailure
  /\ logPay' = IdleLogPay
  /\ UNCHANGED settingsVars
  /\ Did("LogPayFail")
  /\ UNCHANGED <<appVars, localVars, remoteVars, nextId, storeSync, paySync, delTx, editTx>>
  /\ Rendered

\* ------------------------------------- StoreAccordion.deleteTransaction
\* p.id === t.id || (p.storeId === t.storeId && p.transactionMonth === t.transactionMonth)
SameIdOrPair(p, t) ==
  \/ p.id = t.id
  \/ p.storeId = t.storeId /\ p.transactionMonth = t.transactionMonth

\* (the filter that drops nothing)
RemovePendingNothing(list, t) == list

\* list.filter(p => !(same id or same pair))
RemovePending(list, t) == SelectSeq(list, LAMBDA p : ~SameIdOrPair(p, t))

\* existsPending: the matching entries leave the queue and the handler returns
DeleteTransactionLocal ==
  /\ delTx.pc = "idle"
  /\ \E t \in Range(localTx) :
       /\ \E k \in 1..Len(pending_payments) : SameIdOrPair(pending_payments[k], t)
       /\ pending_payments' = RemovePending(pending_payments, t)
       /\ UserOpOwing("DeleteTransactionLocal", {},
                      {p.id : p \in {q \in Range(pending_payments) : SameIdOrPair(q, t)}})
       /\ UNCHANGED settingsVars
       /\ DidDispatch("DeleteTransactionLocal", t, {"pendingPaymentsUpdated"})
  /\ UNCHANGED <<appVars, pending_stores, edit_overrides, remoteVars, nextId, procVars>>
  /\ Render(RemoveTx(localTx, step'.arg.id), savedEdits, editingId, TRUE)

\* no pending entry matches and the database is connected: up to await deleteDoc
DeleteTransactionSubmit ==
  /\ delTx.pc = "idle"
  /\ db /\ isAuthReady
  /\ UserOp("DeleteTransactionSubmit")
  /\ \E t \in Range(localTx) :
       /\ ~\E k \in 1..Len(pending_payments) : SameIdOrPair(pending_payments[k], t)
       /\ delTx' = [pc |-> "deleteDoc", t |-> t]
  /\ UNCHANGED settingsVars
  /\ Did("DeleteTransactionSubmit")
  /\ UNCHANGED <<appVars, localVars, remoteVars, nextId, storeSync, paySync, logPay, editTx>>
  /\ Rendered

\* await deleteDoc(txRef)
DelTxDeleteDoc ==
  /\ delTx.pc = "deleteDoc"
  /\ remoteTx' = Remove(remoteTx, delTx.t.id)
  /\ delTx' = [delTx EXCEPT !.pc = "updateDoc"]
  /\ UNCHANGED settingsVars
  /\ Did("DelTxDeleteDoc")
  /\ UNCHANGED <<appVars, localVars, remoteStores, nextId, storeSync, paySync, logPay, editTx, hist>>
  /\ Rendered

\* await updateDoc(storeRef, { totalRevenue: increment(-t.paymentAmount), entries: increment(-1) })
DelTxUpdateDoc ==
  /\ delTx.pc = "updateDoc"
  /\ delTx.t.storeId \in DOMAIN remoteStores
  /\ remoteStores' = IncrementStore(remoteStores, delTx.t.storeId, -delTx.t.paymentAmount, -1)
  /\ delTx' = IdleDelTx
  /\ UNCHANGED settingsVars
  /\ DidWith("DelTxUpdateDoc", delTx.t)
  /\ UNCHANGED <<appVars, localVars, remoteTx, nextId, storeSync, paySync, logPay, editTx, hist>>
  /\ Render(RemoveTx(localTx, delTx.t.id), savedEdits, editingId, FALSE)

DelTxFail ==
  /\ delTx.pc \in {"deleteDoc", "updateDoc"}
  /\ IF delTx.pc = "updateDoc" /\ delTx.t.storeId \notin DOMAIN remoteStores
       THEN UNCHANGED hist ELSE RemoteFailure
  /\ delTx' = IdleDelTx
  /\ UNCHANGED settingsVars
  /\ Did("DelTxFail")
  /\ UNCHANGED <<appVars, localVars, remoteVars, nextId, storeSync, paySync, logPay, editTx>>
  /\ Rendered

\* ------------------------------------ StoresListView.handleDeleteStore
\* a local store: the filtered list replaces the queue
DeleteStoreLocal ==
  /\ \E store \in Range(displayStores) :
       /\ StartsWithLocal(store.id)
       /\ UserOpOwing("DeleteStoreLocal", {}, {store.id})
       /\ pending_stores' = RemoveStore(pending_stores, store.id)
       /\ UNCHANGED settingsVars
       /\ DidDispatch("DeleteStoreLocal", store, {"pendingStoresUpdated"})
  /\ UNCHANGED <<appVars, pending_payments, edit_overrides, remoteVars, nextId, procVars>>
  /\ Rendered

\* ---------------------------------------------- StoreAccordion.saveEdit
\* the values the edit form can hold
EditInputs ==
  {[senderName |-> sender, simCardsSold |-> sims,
    paymentAmount |-> amount, clearance |-> clearance] :
     sender \in Senders, sims \in SimCounts, amount \in EditAmounts,
     clearance \in EditClearances}

\* if (!senderName || simCardsSold < 0 || paymentAmount < 0) { alert; return }
EditValid(fields) ==
  /\ fields.senderName # ""
  /\ fields.simCardsSold >= 0
  /\ fields.paymentAmount >= 0

\* the values that pass the validation
EditFields(tx) == {fields \in EditInputs : EditValid(fields)}

\* if (!db || !isAuthReady): the edit goes into the queue, in place when an
\* entry has the id or the pair, and the override is persisted
SaveEditOffline ==
  /\ editTx.pc = "idle"
  /\ ~(db /\ isAuthReady)
  /\ UNCHANGED settingsVars
  /\ DidDispatch("SaveEditOffline", <<>>, {"pendingPaymentsUpdated"})
  /\ UNCHANGED <<appVars, pending_stores, remoteVars, nextId, procVars>>
  /\ \E tx \in Range(localTx) : \E fields \in EditFields(tx) :
       LET idx == FindIndex(pending_payments, LAMBDA p : SameIdOrPair(p, tx))
       IN /\ UserOpOwing("SaveEditOffline", IF idx > 0 THEN {} ELSE {tx.id}, {})
          /\ pending_payments' =
               IF idx > 0
                 THEN [pending_payments EXCEPT ![idx] = ApplyOverride(@, fields)]
                 ELSE Append(pending_payments, ApplyOverride(tx, fields))
          /\ edit_overrides' = Put(edit_overrides, tx.id, fields)
          /\ SavedRender(tx, fields)

\* connected: up to await updateDoc(txRef, ...)
SaveEditSubmit ==
  /\ editTx.pc = "idle"
  /\ db /\ isAuthReady
  /\ UserOp("SaveEditSubmit")
  /\ \E tx \in Range(localTx) : \E fields \in EditFields(tx) :
       editTx' = [pc |-> "updateDoc", tx |-> tx, fields |-> fields]
  /\ UNCHANGED settingsVars
  /\ Did("SaveEditSubmit")
  /\ UNCHANGED <<appVars, localVars, remoteVars, nextId, storeSync, paySync, logPay, delTx>>
  /\ Render(localTx, savedEdits, [id |-> editTx'.tx.id, storeId |-> editTx'.tx.storeId], FALSE)

\* after the last await: the override is kept in localStorage and the
\* optimisticTxEdit listener of App stores it in optimisticTxEdits
SaveEditDone ==
  /\ edit_overrides' = Put(edit_overrides, editTx.tx.id, editTx.fields)
  /\ optimisticTxEdits' = Put(optimisticTxEdits, editTx.tx.id, editTx.fields)
  /\ editTx' = IdleEditTx

\* await updateDoc(txRef, { senderName, simCardsSold, paymentAmount, clearance })
SaveEditUpdateDoc ==
  /\ editTx.pc = "updateDoc"
  /\ editTx.tx.id \in DOMAIN remoteTx
  /\ remoteTx' = UpdateTxFields(remoteTx, editTx.tx.id, editTx.fields)
  /\ IF editTx.fields.paymentAmount - editTx.tx.paymentAmount # 0
       THEN /\ editTx' = [editTx EXCEPT !.pc = "incDelta"]
            /\ UNCHANGED <<edit_overrides, optimisticTxEdits>>
       ELSE SaveEditDone
  /\ UNCHANGED settingsVars
  /\ DidDispatch("SaveEditUpdateDoc", <<>>,
                 IF editTx.fields.paymentAmount - editTx.tx.paymentAmount # 0
                   THEN {} ELSE {"optimisticTxEdit"})
  /\ UNCHANGED <<db, isAuthReady, stores, transactions, pending_stores, pending_payments,
                 remoteStores, nextId, storeSync, paySync, logPay, delTx, hist>>
  /\ IF editTx'.pc = "idle" THEN SavedRender(editTx.tx, editTx.fields) ELSE Rendered

\* await updateDoc(storeRef, { totalRevenue: increment(delta) })
SaveEditIncDelta ==
  /\ editTx.pc = "incDelta"
  /\ editTx.tx.storeId \in DOMAIN remoteStores
  /\ remoteStores' = IncrementStore(remoteStores, editTx.tx.storeId,
                                    editTx.fields.paymentAmount - editTx.tx.paymentAmount, 0)
  /\ SaveEditDone
  /\ UNCHANGED settingsVars
  /\ DidDispatch("SaveEditIncDelta", <<>>, {"optimisticTxEdit"})
  /\ UNCHANGED <<db, isAuthReady, stores, transactions, pending_stores, pending_payments,
                 remoteTx, nextId, storeSync, paySync, logPay, delTx, hist>>
  /\ SavedRender(editTx.tx, editTx.fields)

SaveEditNotFound ==
  \/ editTx.pc = "updateDoc" /\ editTx.tx.id \notin DOMAIN remoteTx
  \/ editTx.pc = "incDelta" /\ editTx.tx.storeId \notin DOMAIN remoteStores

SaveEditFail ==
  /\ editTx.pc \in {"updateDoc", "incDelta"}
  /\ IF SaveEditNotFound THEN UNCHANGED hist ELSE RemoteFailure
  /\ editTx' = IdleEditTx
  /\ UNCHANGED settingsVars
  /\ Did("SaveEditFail")
  /\ UNCHANGED <<appVars, localVars, remoteVars, nextId, storeSync, paySync, logPay, delTx>>
  /\ Rendered

\* ------------------------------------------- App: snapshot listeners
\* the documents of a collection as the list a snapshot delivers, by id
RECURSIVE DocList(_, _)
DocList(coll, ids) ==
  IF ids = {} THEN <<>>
  ELSE LET id == CHOOSE x \in ids : \A y \in ids : x[2] <= y[2]
       IN <<coll[id] @@ [id |-> id]>> \o DocList(coll, ids \ {id})

\* (the stores listener without its guard on isAuthReady and db)
StoresSnapshotUnguarded ==
  /\ stores' = DocList(remoteStores, DOMAIN remoteStores)
  /\ stores' # stores
  /\ UNCHANGED settingsVars
  /\ Did("StoresSnapshot")
  /\ UNCHANGED <<db, isAuthReady, transactions, optimisticTxEdits, localVars,
                 remoteVars, nextId, procVars, hist>>
  /\ Rendered

\* if (!isAuthReady || !db) return;
\* onSnapshot(storesCollectionRef, ...): setStores(fetchedStores)
StoresSnapshot ==
  /\ isAuthReady /\ db
  /\ stores' = DocList(remoteStores, DOMAIN remoteStores)
  /\ stores' # stores
  /\ UNCHANGED settingsVars
  /\ Did("StoresSnapshot")
  /\ UNCHANGED <<db, isAuthReady, transactions, optimisticTxEdits, localVars,
                 remoteVars, nextId, procVars, hist>>
  /\ Rendered

\* the comparison of the pruning effect between an override and a record
OverrideMatches(ov, t) ==
  /\ ov.senderName = t.senderName
  /\ ov.simCardsSold = t.simCardsSold
  /\ ov.paymentAmount = t.paymentAmount
  /\ ov.clearance = t.clearance

\* the overrides of `overrides` that no record of the snapshot matches
PruneOverrides(overrides, snapshot) ==
  LET matched == {id \in DOMAIN overrides :
                    \E k \in 1..Len(snapshot) :
                       snapshot[k].id = id /\ OverrideMatches(overrides[id], snapshot[k])}
  IN [id \in (DOMAIN overrides) \ matched |-> overrides[id]]

\* the pruning effect's guard: if (!transactions.length ||
\* !Object.keys(optimisticTxEdits).length) return
PruneRuns(snapshot, optimistic) == Len(snapshot) # 0 /\ DOMAIN optimistic # {}

\* onSnapshot(txRef, ...): setTransactions(list), then the pruning effect,
\* which depends on [transactions]
TransactionsSnapshot ==
  /\ isAuthReady /\ db
  /\ transactions' = DocList(remoteTx, DOMAIN remoteTx)
  /\ transactions' # transactions
  /\ IF PruneRuns(transactions', optimisticTxEdits)
       THEN /\ optimisticTxEdits' = PruneOverrides(optimisticTxEdits, transactions')
            /\ edit_overrides' = PruneOverrides(edit_overrides, transactions')
       ELSE UNCHANGED <<optimisticTxEdits, edit_overrides>>
  /\ UNCHANGED settingsVars
  /\ Did("TransactionsSnapshot")
  /\ UNCHANGED <<db, isAuthReady, stores, pending_stores, pending_payments,
                 remoteVars, nextId, procVars, hist>>
  /\ Rendered

\* ------------------------------- SettingsView.handleDeleteAllStores
\* batches are cut at 400 writes
BatchLimit == 400

Min(a, b) == IF a < b THEN a ELSE b

\* (await getDocs(ref)).docs as the list of the documents' refs, in id order;
\* every id of the collection was minted from a value below `limit`
DocRefs(coll, prefix, limit) ==
  LET ks == SelectSeq([k \in 1..(limit - 1) |-> k], LAMBDA k : <<prefix, k>> \in DOMAIN coll)
  IN [r \in 1..Len(ks) |-> <<prefix, ks[r]>>]

\* for (let j = i; j < Math.min(i + 400, docs.length); j++) batch.delete(docs[j].ref)
ChunkBatch(docs, i) == {docs[j + 1] : j \in i..(Min(i + BatchLimit, Len(docs)) - 1)}

\* await batch.commit() of a batch of deletes
DeleteRefs(coll, refs) == [x \in (DOMAIN coll) \ refs |-> coll[x]]

\* where the handler stands after getDocs and after a chunk has run through:
\* chunk(allTx.docs), then chunk(allStores.docs), a loop over an empty list
\* awaits nothing
AfterTx(d) ==
  IF Len(d.allStores) > 0
    THEN [d EXCEPT !.pc = "chunkStores", !.i = 0]
    ELSE IdleDelAll

AfterGetDocs(d) ==
  IF Len(d.allTx) > 0 THEN [d EXCEPT !.pc = "chunkTx", !.i = 0] ELSE AfterTx(d)

\* removeItem of both queues and both events, whatever the connection
ClearPending ==
  /\ pending_stores' = <<>>
  /\ pending_payments' = <<>>

ClearedIds ==
  {s.id : s \in Range(pending_stores)} \cup {p.id : p \in Range(pending_payments)}

\* if (!db || !isAuthReady) { alert; return } after the queues are cleared
DeleteAllStoresLocal ==
  /\ ~(db /\ isAuthReady)
  /\ delAll.pc = "idle"
  /\ UserOpOwing("DeleteAllStoresLocal", {}, ClearedIds)
  /\ ClearPending
  /\ DidDispatch("DeleteAllStoresLocal", <<>>,
                 {"pendingStoresUpdated", "pendingPaymentsUpdated"})
  /\ UNCHANGED <<appVars, edit_overrides, remoteVars, nextId, procVars, settingsVars>>
  /\ Rendered

\* connected: the queues are cleared and the handler runs up to
\* await getDocs(storesRef)
DeleteAllStoresSubmit ==
  /\ db /\ isAuthReady
  /\ delAll.pc = "idle"
  /\ hist.userOps < MaxUserOps
  /\ hist' = [hist EXCEPT !.userOps = @ + 1, !.remoteOps = @ + 1,
                          !.ops = @ \cup {"DeleteAllStoresSubmit"},
                          !.owed = @ \ ClearedIds]
  /\ ClearPending
  /\ delAll' = [IdleDelAll EXCEPT !.pc = "getStores"]
  /\ DidDispatch("DeleteAllStoresSubmit", <<>>,
                 {"pendingStoresUpdated", "pendingPaymentsUpdated"})
  /\ UNCHANGED <<appVars, edit_overrides, remoteVars, nextId, procVars,
                 parsedRows, importJob>>
  /\ Rendered

\* const allStores = await getDocs(storesRef)
DelAllGetStores ==
  /\ delAll.pc = "getStores"
  /\ delAll' = [delAll EXCEPT !.pc = "getTx",
                              !.allStores = DocRefs(remoteStores, "store", nextId)]
  /\ Did("DelAllGetStores")
  /\ UNCHANGED <<appVars, localVars, remoteVars, nextId, procVars, parsedRows,
                 importJob, hist>>
  /\ Rendered

\* const allTx = await getDocs(txRef), then chunk(allTx.docs) up to its await
DelAllGetTx ==
  /\ delAll.pc = "getTx"
  /\ delAll' = AfterGetDocs([delAll EXCEPT !.allTx = DocRefs(remoteTx, "tx", nextId)])
  /\ Did("DelAllGetTx")
  /\ UNCHANGED <<appVars, localVars, remoteVars, nextId, procVars, parsedRows,
                 importJob, hist>>
  /\ Rendered

\* await batch.commit(); i += 400; the loop goes on, or the next chunk starts,
\* or the handler ends; `batches` is history, the batches committed so far
DelAllCommit ==
  /\ delAll.pc \in {"chunkTx", "chunkStores"}
  /\ LET docs == IF delAll.pc = "chunkTx" THEN delAll.allTx ELSE delAll.allStores
         batch == ChunkBatch(docs, delAll.i)
         batches == Append(delAll.batches, [kind |-> delAll.pc, writes |-> batch])
         done == [delAll EXCEPT !.batches = batches]
     IN /\ IF delAll.pc = "chunkTx"
             THEN remoteTx' = DeleteRefs(remoteTx, batch) /\ UNCHANGED remoteStores
             ELSE remoteStores' = DeleteRefs(remoteStores, batch) /\ UNCHANGED remoteTx
        /\ delAll' = IF delAll.i + BatchLimit < Len(docs)
                       THEN [done EXCEPT !.i = @ + BatchLimit]
                     ELSE IF delAll.pc = "chunkTx" THEN AfterTx(done)
                     ELSE IdleDelAll
        /\ DidWith("DelAllCommit", [kind |-> delAll.pc, writes |-> batch, batches |-> batches,
                                    allTx |-> delAll.allTx, allStores |-> delAll.allStores])
  /\ UNCHANGED <<appVars, localVars, nextId, procVars, parsedRows, importJob, hist>>
  /\ Rendered

\* an awaited call rejects: catch (err) { alert('Failed to delete all stores') }
DelAllFail ==
  /\ delAll.pc \in {"getStores", "getTx", "chunkTx", "chunkStores"}
  /\ RemoteFailure
  /\ delAll' = IdleDelAll
  /\ Did("DelAllFail")
  /\ UNCHANGED <<appVars, localVars, remoteVars, nextId, procVars, parsedRows, importJob>>
  /\ Rendered

\* ------------------------------------------ SettingsView.performImport
\* String.prototype.toLowerCase on the strings of the model
toLowerCase(str) ==
  CASE str = "Name" -> "name"
    [] str = "Kiosk A" -> "kiosk a"
    [] str = "KIOSK A" -> "kiosk a"
    [] OTHER -> str

\* processExcelNameList: the first cell of every row, without the empty cells
\* and the header `name`
processExcelNameList(rows) ==
  SelectSeq(rows, LAMBDA first : first # "" /\ toLowerCase(first) # "name")

\* new Set(stores.map(s => s.name.toLowerCase()))
existingNames == {toLowerCase(s.name) : s \in Range(displayStores)}

\* the loop over parsedRows with seenLocal: a row is kept when its key is not
\* an existing name and no earlier row has the key
Unique(rows) ==
  LET Kept(k) == /\ toLowerCase(rows[k]) \notin existingNames
                 /\ \A j \in 1..(k - 1) : toLowerCase(rows[j]) # toLowerCase(rows[k])
      ks == SelectSeq([k \in 1..Len(rows) |-> k], Kept)
  IN [r \in 1..Len(ks) |-> rows[ks[r]]]

\* the sheets the user can pick, by their first column
Files == {<<"Name", "Kiosk A">>, <<"Name", "", "kiosk b", "KIOSK A">>}

\* handleFile: setParsedRows(out)
ChooseFile(files) ==
  /\ \E rows \in files : parsedRows' = processExcelNameList(rows)
  /\ parsedRows' # parsedRows
  /\ UNCHANGED <<appVars, localVars, remoteVars, nextId, procVars, delAll, importJob>>

HandleFile ==
  /\ UserOpOwing("HandleFile", {}, {})
  /\ Did("HandleFile")
  /\ ChooseFile(Files)
  /\ Rendered

\* if (!db || !isAuthReady): the unique rows are appended to pending_stores
PerformImportOffline ==
  /\ Len(parsedRows) > 0
  /\ importJob.pc = "idle"
  /\ ~(db /\ isAuthReady)
  /\ LET unique == Unique(parsedRows)
         additions == [k \in 1..Len(unique) |->
                         [id |-> LocalStoreId(nextId + k - 1), name |-> unique[k],
                          totalRevenue |-> 0, entries |-> 0]]
     IN /\ pending_stores' = pending_stores \o additions
        /\ nextId' = nextId + Len(unique)
        /\ UserOpOwing("PerformImportOffline", {s.id : s \in Range(additions)}, {})
  /\ DidDispatch("PerformImportOffline", <<>>, {"pendingStoresUpdated"})
  /\ UNCHANGED <<appVars, pending_payments, edit_overrides, remoteVars, procVars, settingsVars>>
  /\ Rendered

\* connected: every unique row is set in one writeBatch, up to await batch.commit()
PerformImportSubmit ==
  /\ Len(parsedRows) > 0
  /\ importJob.pc = "idle"
  /\ db /\ isAuthReady
  /\ UserOp("PerformImportSubmit")
  /\ importJob' = [pc |-> "commit", unique |-> Unique(parsedRows), first |-> nextId]
  /\ nextId' = nextId + Len(Unique(parsedRows))
  /\ Did("PerformImportSubmit")
  /\ UNCHANGED <<appVars, localVars, remoteVars, procVars, delAll, parsedRows>>
  /\ Rendered

\* await batch.commit()
ImportCommit ==
  /\ importJob.pc = "commit"
  /\ LET refs == {StoreDocId(importJob.first + k - 1) : k \in 1..Len(importJob.unique)}
     IN /\ remoteStores' =
             [id \in (DOMAIN remoteStores) \cup refs |->
                IF id \in refs
                  THEN [name |-> importJob.unique[id[2] - importJob.first + 1],
                        totalRevenue |-> 0, entries |-> 0]
                  ELSE remoteStores[id]]
        /\ DidWith("ImportCommit", [kind |-> "set", writes |-> refs])
  /\ importJob' = IdleImport
  /\ UNCHANGED <<appVars, localVars, remoteTx, nextId, procVars, delAll, parsedRows, hist>>
  /\ Rendered

\* batch.commit() rejects: report.errors.push('Import failed')
ImportFail ==
  /\ importJob.pc = "commit"
  /\ RemoteFailure
  /\ importJob' = IdleImport
  /\ Did("ImportFail")
  /\ UNCHANGED <<appVars, localVars, remoteVars, nextId, procVars, delAll, parsedRows>>
  /\ Rendered

\* ------------------------------------------------------ process restart
\* a reload (or crash and restart): localStorage and the remote store survive,
\* the state of App and every async function in flight is lost
Reload ==
  /\ hist.reloads < MaxReloads
  /\ hist' = [hist EXCEPT !.reloads = @ + 1]
  /\ db' = FALSE
  /\ isAuthReady' = FALSE
  /\ stores' = <<>>
  /\ transactions' = <<>>
  /\ optimisticTxEdits' = EmptyMap
  /\ storeSync' = IdleStoreSync
  /\ paySync' = IdlePaySync
  /\ logPay' = IdleLogPay
  /\ delTx' = IdleDelTx
  /\ editTx' = IdleEditTx
  /\ delAll' = IdleDelAll
  /\ parsedRows' = <<>>
  /\ importJob' = IdleImport
  /\ Did("Reload")
  /\ UNCHANGED <<localVars, remoteVars, nextId>>
  /\ Render(<<>>, EmptyMap, NoEdit, TRUE)

\* cancelEdit: the user closes the edit form that a failed save left open
CancelEdit ==
  /\ editingId # NoEdit
  /\ editTx.pc = "idle"
  /\ UNCHANGED settingsVars
  /\ Did("CancelEdit")
  /\ UNCHANGED <<appVars, localVars, remoteVars, nextId, procVars, hist>>
  /\ Render(localTx, savedEdits, NoEdit, FALSE)

\* ------------------------------------------------------- specification
Next ==
  \/ InitFirebase
  \/ AuthReady
  \/ StoreSyncSetDoc
  \/ StoreSyncFail
  \/ PaySyncGetDocs
  \/ PaySyncUpdateDoc
  \/ PaySyncIncDelta
  \/ PaySyncSetDoc
  \/ PaySyncIncStore
  \/ PaySyncFail
  \/ AddStoreOffline
  \/ AddStoreOnline
  \/ LogPaymentOffline
  \/ LogPaymentSubmit
  \/ LogPaySyncStore
  \/ LogPayGetDocs
  \/ LogPayUpdateDoc
  \/ LogPayIncDelta
  \/ LogPaySetDoc
  \/ LogPayIncStore
  \/ LogPayFail
  \/ DeleteTransactionLocal
  \/ DeleteTransactionSubmit
  \/ DelTxDeleteDoc
  \/ DelTxUpdateDoc
  \/ DelTxFail
  \/ DeleteStoreLocal
  \/ SaveEditOffline
  \/ SaveEditSubmit
  \/ SaveEditUpdateDoc
  \/ SaveEditIncDelta
  \/ SaveEditFail
  \/ StoresSnapshot
  \/ TransactionsSnapshot
  \/ CancelEdit
  \/ DeleteAllStoresLocal
  \/ DeleteAllStoresSubmit
  \/ DelAllGetStores
  \/ DelAllGetTx
  \/ DelAllCommit
  \/ DelAllFail
  \/ HandleFile
  \/ PerformImportOffline
  \/ PerformImportSubmit
  \/ ImportCommit
  \/ ImportFail
  \/ Reload

Spec == Init /\ [][Next]_vars

\* The Sync Worker with a user who only works offline: the two drains are the
\* only writers of the remote store.
SyncNext ==
  \/ InitFirebase
  \/ AuthReady
  \/ StoreSyncSetDoc
  \/ StoreSyncFail
  \/ PaySyncGetDocs
  \/ PaySyncUpdateDoc
  \/ PaySyncIncDelta
  \/ PaySyncSetDoc
  \/ PaySyncIncStore
  \/ PaySyncFail
  \/ AddStoreOffline
  \/ LogPaymentOffline
  \/ SaveEditOffline
  \/ DeleteTransactionLocal
  \/ DeleteStoreLocal
  \/ StoresSnapshot
  \/ TransactionsSnapshot
  \/ Reload

SyncSpec == Init /\ [][SyncNext]_vars

\* SettingsView in a connected session, against a remote store that already
\* holds documents: the bulk deletion and the bulk import with lists on both
\* sides of the batch limit.
BulkSizes == {<<0, 0>>, <<1, 1>>, <<400, 400>>, <<401, 400>>, <<401, 401>>, <<801, 801>>}

\* a sheet with a header and n names
BulkFile(n) == [k \in 1..(n + 1) |-> IF k = 1 THEN "Name" ELSE "shop " \o ToString(k - 1)]

BulkFiles == {BulkFile(n) : n \in {1, 400, 401}}

\* size[1] stores, the first size[2] of them with one payment each
BulkInit ==
  /\ db = TRUE
  /\ isAuthReady = TRUE
  /\ pending_stores = <<>>
  /\ pending_payments = <<>>
  /\ edit_overrides = EmptyMap
  /\ stores = <<>>
  /\ transactions = <<>>
  /\ optimisticTxEdits = EmptyMap
  /\ \E size \in BulkSizes :
       /\ remoteStores = [id \in {StoreDocId(k) : k \in 1..size[1]} |->
                            [name |-> "shop " \o ToString(id[2]),
                             totalRevenue |-> IF id[2] <= size[2] THEN 1000 ELSE 0,
                             entries |-> IF id[2] <= size[2] THEN 1 ELSE 0]]
       /\ remoteTx = [id \in {TxDocId(size[1] + k) : k \in 1..size[2]} |->
                        [storeId |-> StoreDocId(id[2] - size[1]), transactionMonth |-> "March",
                         senderName |-> "ann", simCardsSold |-> 1, paymentAmount |-> 1000,
                         clearance |-> "NOT_CLEARED"]]
       /\ nextId = size[1] + size[2] + 1
  /\ storeSync = IdleStoreSync
  /\ paySync = IdlePaySync
  /\ logPay = IdleLogPay
  /\ delTx = IdleDelTx
  /\ editTx = IdleEditTx
  /\ localTx = <<>>
  /\ savedEdits = EmptyMap
  /\ editingId = NoEdit
  /\ delAll = IdleDelAll
  /\ parsedRows = <<>>
  /\ importJob = IdleImport
  /\ step = [name |-> "init", arg |-> <<>>, events |-> {}]
  /\ hist = IdleHist

HandleBulkFile ==
  /\ UserOpOwing("HandleFile", {}, {})
  /\ Did("HandleFile")
  /\ ChooseFile(BulkFiles)
  /\ Rendered

BulkNext ==
  \/ HandleBulkFile
  \/ PerformImportSubmit
  \/ ImportCommit
  \/ ImportFail
  \/ DeleteAllStoresSubmit
  \/ DelAllGetStores
  \/ DelAllGetTx
  \/ DelAllCommit
  \/ DelAllFail

BulkSpec == BulkInit /\ [][BulkNext]_vars

\* ================================================================ claims
AllIdle ==
  /\ storeSync.pc = "idle"
  /\ paySync.pc = "idle"
  /\ logPay.pc = "idle"
  /\ delTx.pc = "idle"
  /\ editTx.pc = "idle"

DocsOfStore(sid) == {id \in DOMAIN remoteTx : remoteTx[id].storeId = sid}

DocsOfPair(sid, month) == {id \in DocsOfStore(sid) : remoteTx[id].transactionMonth = month}

\* C1: a store and a payment for it queued offline, then readiness, every
\* remote call succeeding and no further user action: once the worker has
\* nothing left in flight there is one remote store with totalRevenue = A and
\* entries = 1, one remote payment under the server id, and both queues are empty.
C1_Scenario ==
  /\ hist.ops = {"AddStoreOffline", "LogPaymentOffline"}
  /\ hist.userOps = 2
  /\ hist.fails = 0
  /\ hist.reloads = 0

C1_Goal ==
  /\ Cardinality(DOMAIN remoteStores) = 1
  /\ Cardinality(DOMAIN remoteTx) = 1
  /\ \A sid \in DOMAIN remoteStores : \A id \in DOMAIN remoteTx :
       /\ remoteTx[id].storeId = sid
       /\ remoteStores[sid].totalRevenue = remoteTx[id].paymentAmount
       /\ remoteStores[sid].entries = 1
  /\ pending_stores = <<>>
  /\ pending_payments = <<>>

C1_OfflineScenarioCompletes ==
  (C1_Scenario /\ isAuthReady /\ AllIdle) => C1_Goal

\* C2: no payment document of the remote store carries a locally minted
\* storeId.
C2_NoLocalStoreIdRemote ==
  \A id \in DOMAIN remoteTx : ~StartsWithLocal(remoteTx[id].storeId)

\* the drain has written the document of a payment that was queued offline
C2_Witness ==
  /\ step.name = "PaySyncSetDoc"
  /\ PayItem.id[1] = "local-pay-"
  /\ \E id \in DOMAIN remoteTx : remoteTx[id] = TxDocOf(PayItem, PayItem.storeId)

\* C3: an item the payment drain has finished with either updated the
\* existing document of its pair (fields of the item, totalRevenue changed by
\* new amount minus previous amount, entries unchanged, no new document) or
\* created exactly one document (totalRevenue + amount, entries + 1).
ItemFinished ==
  /\ step.name \in {"PaySyncUpdateDoc", "PaySyncIncDelta", "PaySyncIncStore"}
  /\ step.arg.outcome \in {"updated", "created"}

C3_DrainUpsert ==
  ItemFinished =>
    LET d == step.arg
        p == d.p
        docs == DocsOfPair(p.storeId, p.transactionMonth)
        store == remoteStores[p.storeId]
    IN IF d.before.docs > 0
         THEN /\ d.outcome = "updated"
              /\ Cardinality(docs) = d.before.docs
              /\ remoteTx[d.existing] = TxDocOf(p, p.storeId)
              /\ store.totalRevenue = d.before.totalRevenue + (p.paymentAmount - d.prev)
              /\ store.entries = d.before.entries
         ELSE /\ d.outcome = "created"
              /\ Cardinality(docs) = 1
              /\ \A id \in docs : remoteTx[id] = TxDocOf(p, p.storeId)
              /\ store.totalRevenue = d.before.totalRevenue + p.paymentAmount
              /\ store.entries = d.before.entries + 1

\* two queued payments of one pair, 1000 then 1500, drained in queue order:
\* one document with 1500 and a revenue of 1500
C3_Witness ==
  /\ ItemFinished
  /\ step.arg.i = 2
  /\ step.arg.batch[1].paymentAmount = 1000
  /\ step.arg.batch[1].storeId = step.arg.p.storeId
  /\ step.arg.batch[1].transactionMonth = step.arg.p.transactionMonth
  /\ step.arg.p.paymentAmount = 1500
  /\ step.arg.prev = 1000
  /\ hist.fails = 0
  /\ Cardinality(DocsOfStore(step.arg.p.storeId)) = 1
  /\ remoteTx[step.arg.existing].paymentAmount = 1500
  /\ remoteStores[step.arg.p.storeId].totalRevenue = 1500

\* C4: an item drained against a remote state that already holds its
\* document is finished without a second document: the pair has exactly one
\* document, carrying the item's values.
C4_RedrainIdempotent ==
  (ItemFinished /\ step.arg.before.committed) =>
    LET p == step.arg.p
        docs == DocsOfPair(p.storeId, p.transactionMonth)
    IN /\ Cardinality(docs) = 1
       /\ \A id \in docs : remoteTx[id] = TxDocOf(p, p.storeId)

\* the only payment ever logged is drained again after its first drain failed
\* between the document and the aggregate
C4_Witness ==
  /\ ItemFinished
  /\ step.arg.before.committed
  /\ hist.ops = {"AddStoreOffline", "LogPaymentOffline"}
  /\ hist.userOps = 2
  /\ hist.fails = 1

\* C5: at most one remote payment document per (storeId, transactionMonth).
C5_AtMostOnePerPair ==
  \A a, b \in DOMAIN remoteTx :
    (remoteTx[a].storeId = remoteTx[b].storeId
       /\ remoteTx[a].transactionMonth = remoteTx[b].transactionMonth) => a = b

\* C6: when both queues are empty, nothing is in flight and no override is
\* active, every remote store's totalRevenue is the sum of its payments and
\* entries their count.
Quiescent ==
  /\ pending_stores = <<>>
  /\ pending_payments = <<>>
  /\ AllIdle
  /\ DOMAIN edit_overrides = {}
  /\ DOMAIN optimisticTxEdits = {}

C6_AggregatesWhenQuiescent ==
  Quiescent =>
    \A sid \in DOMAIN remoteStores :
      /\ remoteStores[sid].totalRevenue = SumAmount(remoteTx, DocsOfStore(sid))
      /\ remoteStores[sid].entries = Cardinality(DocsOfStore(sid))

\* C7: after a transactions snapshot has been delivered and the pruning
\* effect has run, no override (persisted or in memory) is left whose fields
\* equal those of the snapshot's record with its id.
Unpruned(overrides) ==
  {id \in DOMAIN overrides :
     \E k \in 1..Len(transactions) :
        transactions[k].id = id /\ OverrideMatches(overrides[id], transactions[k])}

C7_OverridePrunedOnMatch ==
  step.name = "TransactionsSnapshot" =>
    Unpruned(edit_overrides) = {} /\ Unpruned(optimisticTxEdits) = {}

\* C8: deleting a payment or a store that is only queued removes it from the
\* queue, starts no remote call and leaves the remote store as it was.
C8_LocalDeleteStep ==
  /\ step'.name = "DeleteTransactionLocal" =>
       /\ \A k \in 1..Len(pending_payments') : pending_payments'[k].id # step'.arg.id
       /\ Len(pending_payments') < Len(pending_payments)
       /\ pending_stores' = pending_stores
       /\ remoteStores' = remoteStores /\ remoteTx' = remoteTx
       /\ procVars' = procVars
  /\ step'.name = "DeleteStoreLocal" =>
       /\ \A k \in 1..Len(pending_stores') : pending_stores'[k].id # step'.arg.id
       /\ Len(pending_stores') = Len(pending_stores) - 1
       /\ pending_payments' = pending_payments
       /\ remoteStores' = remoteStores /\ remoteTx' = remoteTx
       /\ procVars' = procVars

C8_LocalDeleteFrame == [][C8_LocalDeleteStep]_vars

\* a queued payment of a store without any remote document has been deleted
C8_Witness ==
  /\ step.name = "DeleteTransactionLocal"
  /\ step.arg.id[1] = "local-pay-"
  /\ DOMAIN remoteTx = {}
  /\ pending_payments = <<>>

\* C9: a remote failure on one item of a batch leaves the drain going with
\* the items after it, in the store drain and in the payment drain.
C9_FailureIsolation ==
  /\ (step.name = "StoreSyncFail" /\ step.arg.i < Len(step.arg.batch)) =>
        /\ storeSync.pc = "setDoc"
        /\ storeSync.i = step.arg.i + 1
  /\ (step.name = "PaySyncFail" /\ step.arg.i < Len(step.arg.batch)) =>
        \/ paySync.pc # "idle" /\ paySync.i > step.arg.i
        \/ \A k \in (step.arg.i + 1)..Len(step.arg.batch) :
              StartsWithLocal(step.arg.batch[k].storeId)

\* C10: when a drain attempt ends, no item it committed remotely is still in
\* the persisted queue, and (the user having deleted nothing) every item of
\* the batch that it did not commit is still queued.
QueuedIds(queue) == {queue[k].id : k \in 1..Len(queue)}

NotCommitted(batch, committed) == {batch[k].id : k \in 1..Len(batch)} \ committed

StoreDrainEnded ==
  /\ step.name \in {"StoreSyncFail", "StoreSyncSetDoc"}
  /\ storeSync.pc = "idle"

PayDrainEnded ==
  /\ step.name \in {"PaySyncUpdateDoc", "PaySyncIncDelta", "PaySyncIncStore", "PaySyncFail"}
  /\ paySync.pc = "idle"

NothingDeleted ==
  hist.ops \cap {"DeleteStoreLocal", "DeleteTransactionLocal",
                 "DeleteAllStoresLocal", "DeleteAllStoresSubmit"} = {}

C10_QueueAfterDrain ==
  /\ StoreDrainEnded =>
       /\ QueuedIds(pending_stores) \cap step.arg.committed = {}
       /\ NothingDeleted =>
            NotCommitted(step.arg.batch, step.arg.committed) \subseteq QueuedIds(pending_stores)
  /\ PayDrainEnded =>
       /\ QueuedIds(pending_payments) \cap step.arg.committed = {}
       /\ NothingDeleted =>
            NotCommitted(step.arg.batch, step.arg.committed) \subseteq QueuedIds(pending_payments)

\* C12: after a restart every operation that was enqueued (and not deleted by
\* the user) is still in a persisted queue or has reached the remote store.
C12_NothingLostAcrossRestart ==
  step.name = "Reload" =>
    hist.owed \subseteq (QueuedIds(pending_stores) \cup QueuedIds(pending_payments))

\* C13: every payment in the pending-payment queue has a positive amount, a
\* non-negative SIM count and a sender name.
C13_QueuedPaymentsValid ==
  \A k \in 1..Len(pending_payments) :
    /\ pending_payments[k].paymentAmount > 0
    /\ pending_payments[k].simCardsSold >= 0
    /\ pending_payments[k].senderName # ""

\* C11: while readiness holds, a queue that is not empty is being drained: a
\* drain of it is in flight.  (The drains start only in the step that makes
\* readiness true, so a ready state with queued items and no drain in flight
\* keeps them queued for the rest of the session.)
Ready == db /\ isAuthReady

C11_QueuedItemsRedrained ==
  Ready =>
    /\ pending_stores # <<>> => storeSync.pc # "idle"
    /\ pending_payments # <<>> => paySync.pc # "idle"

\* C14: a drain starts only when no drain of its queue is in flight, and a
\* drain whose queue was changed while it was in flight (the persisted queue
\* is no longer the batch it read) is followed by a further drain: its last
\* step does not leave the worker idle with a queue that is not empty.
PayDrainStep ==
  /\ paySync.pc # "idle"
  /\ step'.name \in {"PaySyncGetDocs", "PaySyncUpdateDoc", "PaySyncIncDelta",
                     "PaySyncSetDoc", "PaySyncIncStore", "PaySyncFail"}

StoreDrainStep ==
  /\ storeSync.pc # "idle"
  /\ step'.name \in {"StoreSyncSetDoc", "StoreSyncFail"}

C14_DrainStep ==
  /\ step'.name = "AuthReady" => (storeSync.pc = "idle" /\ paySync.pc = "idle")
  /\ (PayDrainStep /\ pending_payments # paySync.list /\ pending_payments' # <<>>)
       => paySync'.pc # "idle"
  /\ (StoreDrainStep /\ pending_stores # storeSync.pendingList /\ pending_stores' # <<>>)
       => storeSync'.pc # "idle"

C14_NoOverlapAndCoalesce == [][C14_DrainStep]_vars

\* C15: once the store drain has created the remote store of a local id and
\* rewritten the queued payments, no entry of the pending-payment queue
\* references that local id.
C15_NoStaleLocalReference ==
  \A k \in 1..Len(pending_payments) : pending_payments[k].storeId \notin hist.mapped

\* C16: the sync worker has at most one queued item in flight: the drain of the
\* pending stores and the drain of the pending payments are never in flight
\* together (so every store is remapped before a payment item is processed).
C16_DrainsNeverOverlap ==
  ~(storeSync.pc # "idle" /\ paySync.pc # "idle")

\* C17: for a snapshot with at most one payment per (storeId, transactionMonth)
\* the merged view has at most one record per pair, also while a queued payment
\* is committed remotely and still queued; when pending operations target the
\* pair, the record carries the fields of the last of them in queue order.
SamePair(a, b) == a.storeId = b.storeId /\ a.transactionMonth = b.transactionMonth

UniquePerPair(list) ==
  \A i, j \in 1..Len(list) : SamePair(list[i], list[j]) => i = j

PendingOnPair(r) == {k \in 1..Len(pending_payments) : SamePair(pending_payments[k], r)}

LastPendingOnPair(r) ==
  pending_payments[CHOOSE k \in PendingOnPair(r) : \A j \in PendingOnPair(r) : j <= k]

SameFields(a, b) ==
  /\ a.senderName = b.senderName
  /\ a.simCardsSold = b.simCardsSold
  /\ a.paymentAmount = b.paymentAmount
  /\ a.clearance = b.clearance

ActiveOverrides == DOMAIN edit_overrides \cup DOMAIN optimisticTxEdits

\* the statement as written: the last pending operation's values, whatever
\* the overrides
C17_MergedOnePerPair ==
  UniquePerPair(transactions) =>
    /\ UniquePerPair(transactionsByStore)
    /\ \A r \in Range(transactionsByStore) :
         PendingOnPair(r) # {} => SameFields(r, LastPendingOnPair(r))

\* C17 (amended): the same, the last pending operation's values being carried
\* by every record whose id has no active override
C17_MergedOnePerPairUnlessOverridden ==
  UniquePerPair(transactions) =>
    /\ UniquePerPair(transactionsByStore)
    /\ \A r \in Range(transactionsByStore) :
         (PendingOnPair(r) # {} /\ r.id \notin ActiveOverrides)
           => SameFields(r, LastPendingOnPair(r))

\* two queued payments of one pair with different amounts, the first of them
\* committed remotely and delivered by the snapshot while still queued
C17_Witness ==
  /\ UniquePerPair(transactions)
  /\ paySync.pc # "idle"
  /\ \E i, j \in 1..Len(pending_payments) :
       /\ i < j
       /\ SamePair(pending_payments[i], pending_payments[j])
       /\ pending_payments[i].paymentAmount # pending_payments[j].paymentAmount
       /\ \E t \in Range(transactions) :
            /\ SamePair(t, pending_payments[i])
            /\ t.id # pending_payments[i].id
            /\ t.id # pending_payments[j].id
       /\ \E r \in Range(transactionsByStore) :
            /\ SamePair(r, pending_payments[j])
            /\ r.id \notin ActiveOverrides

\* C18: the revenue displayed for a store equals the sum of paymentAmount over
\* the store's current merged payment list, whatever the remote store
\* document's totalRevenue holds.
C18_DisplayedRevenue ==
  \A k \in 1..Len(displayStores) :
    computedRevenue(TxOfStore(localTx, displayStores[k].id))
      = computedRevenue(TxOfStore(transactionsByStore, displayStores[k].id))

\* C19: every record of the merged view whose id has an active override
\* carries the override's senderName, simCardsSold, paymentAmount and
\* clearance, whatever the snapshot and the pending queue hold for it.
ActiveOverride(id) ==
  IF id \in DOMAIN optimisticTxEdits THEN optimisticTxEdits[id] ELSE edit_overrides[id]

C19_OverridesWin ==
  \A r \in Range(transactionsByStore) :
    r.id \in ActiveOverrides => SameFields(r, ActiveOverride(r.id))

\* an overridden record for whose pair the queue holds other values
C19_Witness ==
  \E r \in Range(transactionsByStore) :
    /\ r.id \in ActiveOverrides
    /\ PendingOnPair(r) # {}
    /\ ~SameFields(LastPendingOnPair(r), ActiveOverride(r.id))

\* C20: while readiness (db and isAuthReady) is false no drain is in flight
\* and no snapshot of the stores or transactions collection is delivered;
\* within one page load readiness becomes true once, in the authentication
\* callback, and never returns to false.
C20_ReadinessStep ==
  /\ ~Ready' => /\ storeSync'.pc = "idle"
                /\ paySync'.pc = "idle"
                /\ stores' = <<>>
                /\ transactions' = <<>>
  /\ (PayDrainStep \/ StoreDrainStep
        \/ step'.name \in {"StoresSnapshot", "TransactionsSnapshot"}) => Ready
  /\ Ready => (Ready' \/ step'.name = "Reload")
  /\ (~Ready /\ Ready') => step'.name = "AuthReady"

C20_ReadinessGate == [][C20_ReadinessStep]_vars

\* a page load that waits for authentication with a store to drain and
\* remote stores to subscribe to
C20_Witness ==
  /\ step.name = "InitFirebase"
  /\ ~Ready
  /\ hist.reloads > 0
  /\ pending_stores # <<>>
  /\ DOMAIN remoteStores # {}

\* C21: when the payment drain has committed an item and the item has left
\* the queue, the merged view still shows a record of the item's pair with
\* the item's field values (there is no state in which a committed payment
\* is absent from both the queue and the view).
LastOfPairInBatch(batch, k) ==
  \A j \in (k + 1)..Len(batch) : ~SamePair(batch[j], batch[k])

C21_CommittedStaysVisible ==
  PayDrainEnded =>
    \A k \in 1..Len(step.arg.batch) :
      LET p == step.arg.batch[k]
      IN (/\ p.id \in step.arg.committed
          /\ p.id \notin QueuedIds(pending_payments)
          /\ LastOfPairInBatch(step.arg.batch, k))
           => \E r \in Range(transactionsByStore) : SamePair(r, p) /\ SameFields(r, p)

\* C22: an override whose id is not among the ids of the transactions snapshot
\* does not outlive the work in progress: once both queues are empty, no
\* handler or drain is in flight and the snapshot is up to date with the remote
\* store, the persisted override map holds no such id.
SnapshotIds == {transactions[k].id : k \in 1..Len(transactions)}

AtRest ==
  /\ db /\ isAuthReady
  /\ AllIdle
  /\ pending_stores = <<>>
  /\ pending_payments = <<>>
  /\ transactions = DocList(remoteTx, DOMAIN remoteTx)

C22_OrphanOverridesDeleted ==
  AtRest => DOMAIN edit_overrides \subseteq SnapshotIds

\* C23: every step that changes the persisted pending-store queue publishes
\* pendingStoresUpdated in the same step, and every step that changes the
\* persisted pending-payment queue publishes pendingPaymentsUpdated in the
\* same step.
C23_QueueWritesPublished ==
  [][/\ pending_stores' # pending_stores => "pendingStoresUpdated" \in step'.events
     /\ pending_payments' # pending_payments => "pendingPaymentsUpdated" \in step'.events]_vars

\* the store drain has finished and has remapped a queued payment
C23_Witness ==
  /\ step.name = "StoreSyncSetDoc"
  /\ storeSync.pc = "idle"
  /\ step.events = {"pendingStoresUpdated", "pendingPaymentsUpdated"}
  /\ \E p \in Range(pending_payments) : p.storeId \in DOMAIN remoteStores

\* C24: every batch that is committed holds at most 400 writes; the batches
\* of a bulk deletion that runs to its end delete every document of the two
\* lists exactly once, every transaction batch before any store batch.
C24_BatchesWithinLimit ==
  /\ step.name \in {"DelAllCommit", "ImportCommit"} => Cardinality(step.arg.writes) <= 400
  /\ (step.name = "DelAllCommit" /\ delAll.pc = "idle") =>
       LET b == step.arg.batches
       IN /\ \A ref \in Range(step.arg.allTx) \cup Range(step.arg.allStores) :
               Cardinality({k \in 1..Len(b) : ref \in b[k].writes}) = 1
          /\ \A j, k \in 1..Len(b) :
               (b[j].kind = "chunkStores" /\ b[k].kind = "chunkTx") => k < j

\* C25: no local store id has two remote store documents set from it, by the
\* store drain (first run or rerun) or by the inline store sync of an online
\* payment submission.
C25_OneRemotePerLocalStore ==
  \A a \in hist.made : \A b \in hist.made : a[1] = b[1] => a[2] = b[2]

\* C26: every queued payment whose storeId is a local id references a store
\* that is in the pending-store queue.
C26_LocalReferencesQueued ==
  \A p \in Range(pending_payments) :
    StartsWithLocal(p.storeId) => p.storeId \in QueuedIds(pending_stores)

\* C27: a drain commits no item that has left its queue because the user
\* deleted it while the drain was in flight, and the write at the end of a
\* drain puts no item into the queue that was not in it just before.
MadeFrom(id) == {m \in hist.made : m[1] = id}

C27_DrainStep ==
  /\ step'.name = "StoreSyncSetDoc" =>
       LET s == storeSync.pendingList[storeSync.i]
       IN s.id \in QueuedIds(pending_stores) \/ MadeFrom(s.id) # {}
  /\ step'.name \in {"PaySyncSetDoc", "PaySyncUpdateDoc"} =>
       PayItem.id \in QueuedIds(pending_payments)
  /\ step'.name \in {"PaySyncUpdateDoc", "PaySyncIncDelta", "PaySyncIncStore", "PaySyncFail"} =>
       QueuedIds(pending_payments') \subseteq QueuedIds(pending_payments)
  /\ step'.name \in {"StoreSyncSetDoc", "StoreSyncFail"} =>
       QueuedIds(pending_stores') \subseteq QueuedIds(pending_stores)

C27_DeletedItemStaysDeleted == [][C27_DrainStep]_vars

\* C28: when deleteTransaction runs to its end for a payment that has a remote
\* document, the document is gone, the payment has left the displayed list,
\* and (on the remote path) the store's totalRevenue and entries are
\* decremented by the payment; also when the queue holds an entry with the
\* payment's id or pair.
C28_DeleteStep ==
  /\ (step'.name = "DeleteTransactionLocal" /\ step'.arg.id \in DOMAIN remoteTx) =>
       /\ step'.arg.id \notin DOMAIN remoteTx'
       /\ \A r \in Range(localTx') : r.id # step'.arg.id
  /\ step'.name = "DelTxUpdateDoc" =>
       /\ delTx.t.id \notin DOMAIN remoteTx'
       /\ \A r \in Range(localTx') : r.id # delTx.t.id
       /\ remoteStores'[delTx.t.storeId].totalRevenue =
            remoteStores[delTx.t.storeId].totalRevenue - delTx.t.paymentAmount
       /\ remoteStores'[delTx.t.storeId].entries = remoteStores[delTx.t.storeId].entries - 1

C28_DeleteRemovesRemote == [][C28_DeleteStep]_vars

\* C29: the displayed store list never holds both a pending local store and
\* the remote store document that was set from it.
C29_NoStoreShownTwice ==
  \A m \in hist.made :
    ~(m[1] \in ShownIds(displayStores) /\ m[2] \in ShownIds(displayStores))

\* C30: a payment submitted while readiness is false (db unset, or db set and
\* authentication not complete) starts no remote call and is appended to the
\* pending-payment queue.
C30_SubmitStep ==
  (step'.name \in {"LogPaymentOffline", "LogPaymentSubmit"} /\ ~(db /\ isAuthReady)) =>
     /\ logPay'.pc = "idle"
     /\ Len(pending_payments') = Len(pending_payments) + 1

C30_NotReadySubmitQueues == [][C30_SubmitStep]_vars

====
